---- MODULE Spec2Model ----
(***************************************************************************)
(* btc-wallet: a command line program that generates `count` BIP-39/BIP-32 *)
(* wallets of `bits` bits of entropy, derives four mainnet addresses for   *)
(* each (BIP-44, BIP-49, BIP-84, BIP-86) and prints them or saves them as  *)
(* CSV.                                                                    *)
(*                                                                         *)
(* The program's own code (NewWallet, ExtendMasterKey, the four            *)
(* Derive*Address methods and main) is translated statement by statement.  *)
(* The libraries it calls (go-bip39, btcd hdkeychain / btcutil / txscript) *)
(* are modelled from their documented contracts: byte and bit layouts are  *)
(* computed, hash functions are terms (a hash is identified by what was    *)
(* hashed) or, where single bits of a digest are needed, a fixed stand-in. *)
(***************************************************************************)
EXTENDS Integers, Sequences, FiniteSets, TLC

(***************************************************************************)
(* Bounds of the exploration.                                              *)
(***************************************************************************)
\* largest value of the -count flag that is explored
MaxCount == 2
\* the random source can produce the entropy fills 0..MaxFill
MaxFill == 3
\* calls a test driver makes to the Derive*Address methods of one wallet
MaxCalls == 5

(***************************************************************************)
(* Values.                                                                 *)
(***************************************************************************)
Nil == [nil |-> TRUE]
NoErr == <<>>

\* fmt.Errorf("msg: %v", err) and fmt.Errorf("msg: %w", err): the message
\* followed by the wrapped error's text
Wrap(msg, err) == <<msg>> \o err

Max(a, b) == IF a >= b THEN a ELSE b

\* x := e; F(x): the value of F for the value of e, e evaluated once.  The
\* operators below follow the statements of the code with it: each
\* assignment binds a name, and what follows the assignment is the LAMBDA.
Let(e, F(_)) == CHOOSE r \in {F(x) : x \in {e}} : TRUE

(***************************************************************************)
(* go-bip39.                                                               *)
(***************************************************************************)
ValidBitSizes == {128, 160, 192, 224, 256}

ErrEntropyLengthInvalid == <<"Entropy length must be [128, 256] and a multiple of 32">>
ErrRandRead == <<"crypto/rand: read failed">>
ErrInvalidMnemonic == <<"Invalid mnenomic">>
ErrChecksumIncorrect == <<"Checksum incorrect">>

\* what crypto/rand delivers: a failure (-1), or one of the fills 0..MaxFill
RandFail == -1
RandOutcomes == {RandFail} \cup (0 .. MaxFill)

\* byte k (1-based) of the entropy the random source delivers for fill f:
\* fill 0 is the all-zero entropy, the others change from byte to byte
RandByte(f, k) == (f * 127 + (k - 1) * f) % 256

\* bip39.NewEntropy(bitSize): the size is validated first, then bitSize/8
\* bytes are read from crypto/rand
NewEntropy(bitSize, rnd) ==
    IF bitSize % 32 # 0 \/ bitSize < 128 \/ bitSize > 256
    THEN [entropy |-> <<>>, err |-> ErrEntropyLengthInvalid]
    ELSE IF rnd = RandFail
    THEN [entropy |-> [k \in 1 .. (bitSize \div 8) |-> 0], err |-> ErrRandRead]
    ELSE [entropy |-> [k \in 1 .. (bitSize \div 8) |-> RandByte(rnd, k)],
          err |-> NoErr]

\* the bits of a byte string, most significant bit of the first byte first
BytesToBits(bytes) ==
    LET bitsOf(b) == [k \in 1 .. 8 * Len(b) |->
                         (b[((k - 1) \div 8) + 1] \div (2 ^ (7 - ((k - 1) % 8)))) % 2]
    IN  Let(bytes, bitsOf)

\* the number a bit string denotes, most significant bit first
BitsToInt(bs) ==
    LET intOf(b) ==
            LET v[t \in 0 .. Len(b)] == IF t = 0 THEN 0 ELSE 2 * v[t - 1] + b[t]
            IN  v[Len(b)]
    IN  Let(bs, intOf)

\* the bytes of a bit string whose length is a multiple of 8
BitsToBytes(bs) ==
    LET bytesOf(b) == [k \in 1 .. (Len(b) \div 8) |->
                          BitsToInt(SubSeq(b, 8 * k - 7, 8 * k))]
    IN  Let(bs, bytesOf)

\* First byte of SHA-256(bytes).  At most 8 checksum bits are ever taken, so
\* only this byte matters; SHA-256 itself is replaced by a fixed stand-in
\* that depends on every input byte and on the length.
Sha256FirstByte(bytes) ==
    LET first(b) ==
            LET h[k \in 0 .. Len(b)] ==
                    IF k = 0 THEN (106 + Len(b)) % 256
                    ELSE (h[k - 1] * 33 + b[k] + 1) % 256
            IN  h[Len(b)]
    IN  Let(bytes, first)

\* the checksum of an entropy: the top len*8/32 bits of its SHA-256
ChecksumBits(entropy) ==
    SubSeq(BytesToBits(<<Sha256FirstByte(entropy)>>), 1, (8 * Len(entropy)) \div 32)

\* bip39.NewMnemonic(entropy): entropy bits followed by the checksum bits,
\* cut into 11-bit groups, each the index of a word of the 2048-word list.
\* A mnemonic is the sequence of its words; a word is written as its index.
NewMnemonic(entropy) ==
    LET words(all) == [j \in 1 .. (Len(all) \div 11) |->
                          BitsToInt(SubSeq(all, 11 * j - 10, 11 * j))]
        encode(e) ==
            IF (8 * Len(e)) \notin ValidBitSizes
            THEN [mnemonic |-> <<>>, err |-> ErrEntropyLengthInvalid]
            ELSE [mnemonic |-> Let(BytesToBits(e) \o ChecksumBits(e), words),
                  err |-> NoErr]
    IN  Let(entropy, encode)

\* the 11 bits of a word index, most significant first
WordBits(w) == [t \in 1 .. 11 |-> (w \div (2 ^ (11 - t))) % 2]

\* bip39.EntropyFromMnemonic(mnemonic): the inverse of NewMnemonic; the
\* checksum is recomputed and compared
EntropyFromMnemonic(mnemonic) ==
    LET check(all) ==
            Let(BitsToBytes(SubSeq(all, 1, Len(all) - (Len(all) \div 33))),
                LAMBDA entropy :
                    IF SubSeq(all, Len(all) - (Len(all) \div 33) + 1, Len(all))
                           = ChecksumBits(entropy)
                    THEN [entropy |-> entropy, err |-> NoErr]
                    ELSE [entropy |-> <<>>, err |-> ErrChecksumIncorrect])
        decode(m) ==
            IF Len(m) \notin {12, 15, 18, 21, 24}
            THEN [entropy |-> <<>>, err |-> ErrInvalidMnemonic]
            ELSE Let([k \in 1 .. 11 * Len(m) |->
                         WordBits(m[((k - 1) \div 11) + 1])[((k - 1) % 11) + 1]],
                     check)
    IN  Let(mnemonic, decode)

\* bip39.NewSeed(mnemonic, password): PBKDF2-HMAC-SHA512, 2048 rounds, 64
\* bytes; the seed is identified by what it was stretched from
NewSeed(mnemonic, password) ==
    [kdf |-> "PBKDF2-HMAC-SHA512", rounds |-> 2048, password |-> mnemonic,
     salt |-> <<"mnemonic", password>>, len |-> 64]

(***************************************************************************)
(* btcd: chaincfg, hdkeychain, btcutil, txscript, schnorr.                 *)
(***************************************************************************)
\* A uint32 child index is written as its top bit and its low 31 bits
\* (2^31 itself is beyond the integers of the model checker).
MaxLow31 == 2147483647
U32(n) == [hi |-> 0, lo |-> n]
\* hdkeychain.HardenedKeyStart, 0x80000000
HardenedKeyStart == [hi |-> 1, lo |-> 0]
\* a + n in uint32 arithmetic, for 0 <= n < 2^31
AddU32(a, n) ==
    IF a.lo > MaxLow31 - n
    THEN [hi |-> 1 - a.hi, lo |-> a.lo - (MaxLow31 - n) - 1]
    ELSE [hi |-> a.hi, lo |-> a.lo + n]
\* i >= HardenedKeyStart
IsHardened(i) == i.hi = 1

\* chaincfg.MainNetParams: the address magics of the main network
MainNetParams ==
    [Name |-> "mainnet", PubKeyHashAddrID |-> 0, ScriptHashAddrID |-> 5,
     Bech32HRPSegwit |-> "bc"]

ErrInvalidSeedLen == <<"seed length must be between 128 and 512 bits">>
ErrUnusableSeed == <<"unusable seed">>
ErrDeriveHardFromPublic == <<"cannot derive a hardened key from a public key">>
ErrDeriveBeyondMaxDepth == <<"cannot derive a key with more than 255 indices in its path">>
ErrInvalidChild == <<"the extended key at this index is invalid">>

\* HMAC-SHA512("Bitcoin seed", seed) gives a left half that is 0 or not below
\* the curve order: an event of negligible probability, which depends on the
\* seed alone.  The exploration places it on the seeds whose mnemonic begins
\* with word 2032 (the entropy of fill 2).
UnusableSeed(seed) == seed.password[1] = 2032

\* The same event for a child key: it depends on the parent and the index
\* alone.  The exploration places it on the account key m/84'/0'/0' of the
\* seeds whose mnemonic begins with word 1020 (the entropy of fill 1).
InvalidChild(parent, index) ==
    /\ parent.seed.password[1] = 1020
    /\ parent.path = <<AddU32(HardenedKeyStart, 84), HardenedKeyStart>>
    /\ index = HardenedKeyStart

\* hdkeychain.NewMaster(seed, net): an extended key is identified by its
\* seed and its path from the master key; depth is the length of the path
NewMaster(seed, net) ==
    IF seed.len < 16 \/ seed.len > 64
    THEN [key |-> Nil, err |-> ErrInvalidSeedLen]
    ELSE IF UnusableSeed(seed)
    THEN [key |-> Nil, err |-> ErrUnusableSeed]
    ELSE [key |-> [seed |-> seed, path |-> <<>>, isPrivate |-> TRUE,
                   net |-> net.Name],
          err |-> NoErr]

\* (*ExtendedKey).Derive(i)
Derive(k, i) ==
    LET child(parent, index) ==
            IF Len(parent.path) = 255
            THEN [key |-> Nil, err |-> ErrDeriveBeyondMaxDepth]
            ELSE IF IsHardened(index) /\ ~parent.isPrivate
            THEN [key |-> Nil, err |-> ErrDeriveHardFromPublic]
            ELSE IF InvalidChild(parent, index)
            THEN [key |-> Nil, err |-> ErrInvalidChild]
            ELSE [key |-> [parent EXCEPT !.path = Append(parent.path, index)],
                  err |-> NoErr]
    IN  Let(k, LAMBDA parent : child(parent, i))

\* (*ExtendedKey).Neuter(): the public-only key of the same node
Neuter(k) == [k EXCEPT !.isPrivate = FALSE]

\* (*ExtendedKey).ECPubKey(): the public key of a node is the same whether
\* the extended key is private or public-only
ECPubKey(k) == [key |-> [point |-> "pub", seed |-> k.seed, path |-> k.path],
                err |-> NoErr]

\* (*PublicKey).SerializeCompressed(): 33 bytes
SerializeCompressed(pub) == [bytes |-> "compressed", of |-> pub, len |-> 33]

\* btcutil.Hash160(buf) = RIPEMD160(SHA256(buf)): 20 bytes
Hash160(buf) == [bytes |-> "hash160", of |-> buf, len |-> 20]

ErrBadLength == <<"bad length">>

\* btcutil.NewAddressPubKeyHash(pkHash, net)
NewAddressPubKeyHash(pkHash, net) ==
    IF pkHash.len # 20
    THEN [address |-> Nil, err |-> ErrBadLength]
    ELSE [address |-> [encoding |-> "Base58Check", hrp |-> "",
                       version |-> net.PubKeyHashAddrID, data |-> pkHash],
          err |-> NoErr]

\* (*ExtendedKey).Address(net): the pay-to-pubkey-hash address of the key
Address(k, net) ==
    NewAddressPubKeyHash(Hash160(SerializeCompressed(ECPubKey(k).key)), net)

\* btcutil.NewAddressWitnessPubKeyHash(witnessProg, net): witness version 0
NewAddressWitnessPubKeyHash(witnessProg, net) ==
    IF witnessProg.len # 20
    THEN [address |-> Nil, err |-> ErrBadLength]
    ELSE [address |-> [encoding |-> "Bech32", hrp |-> net.Bech32HRPSegwit,
                       version |-> 0, data |-> witnessProg],
          err |-> NoErr]

\* btcutil.NewAddressScriptHash(serializedScript, net)
NewAddressScriptHash(serializedScript, net) ==
    [address |-> [encoding |-> "Base58Check", hrp |-> "",
                  version |-> net.ScriptHashAddrID,
                  data |-> Hash160(serializedScript)],
     err |-> NoErr]

\* btcutil.NewAddressTaproot(witnessProg, net): witness version 1
NewAddressTaproot(witnessProg, net) ==
    IF witnessProg.len # 32
    THEN [address |-> Nil, err |-> ErrBadLength]
    ELSE [address |-> [encoding |-> "Bech32m", hrp |-> net.Bech32HRPSegwit,
                       version |-> 1, data |-> witnessProg],
          err |-> NoErr]

ErrUnsupportedAddress == <<"unsupported address type">>

\* txscript.PayToAddrScript(addr): the output script paying to addr
PayToAddrScript(addr) ==
    IF addr.encoding = "Bech32" /\ addr.version = 0 /\ addr.data.len = 20
    THEN [script |-> [bytes |-> "script", of |-> <<"OP_0", "OP_DATA_20", addr.data>>,
                      len |-> 22],
          err |-> NoErr]
    ELSE IF addr.encoding = "Bech32m" /\ addr.version = 1
    THEN [script |-> [bytes |-> "script", of |-> <<"OP_1", "OP_DATA_32", addr.data>>,
                      len |-> 34],
          err |-> NoErr]
    ELSE IF addr.encoding = "Base58Check" /\ addr.version = 0
    THEN [script |-> [bytes |-> "script",
                      of |-> <<"OP_DUP", "OP_HASH160", "OP_DATA_20", addr.data,
                               "OP_EQUALVERIFY", "OP_CHECKSIG">>,
                      len |-> 25],
          err |-> NoErr]
    ELSE IF addr.encoding = "Base58Check" /\ addr.version = 5
    THEN [script |-> [bytes |-> "script",
                      of |-> <<"OP_HASH160", "OP_DATA_20", addr.data, "OP_EQUAL">>,
                      len |-> 23],
          err |-> NoErr]
    ELSE [script |-> Nil, err |-> ErrUnsupportedAddress]

\* txscript.ComputeTaprootKeyNoScript(internalKey): the BIP-341 output key
\* of a key-path-only spend (the tweak commits to the internal key alone)
ComputeTaprootKeyNoScript(internalKey) ==
    [point |-> "taproot-output", internal |-> internalKey, merkleRoot |-> <<>>]

\* schnorr.SerializePubKey(pub): the 32-byte x-only key
SerializePubKey(pub) == [bytes |-> "x-only", of |-> pub, len |-> 32]

\* Address.EncodeAddress() and Address.String(): the text of an address.
\* Base58Check text is the version byte, the payload and their checksum in
\* base 58; segwit text is the prefix, "1", the witness version and the
\* program with the Bech32 (version 0) or Bech32m checksum.
EncodeAddress(a) ==
    IF a.encoding = "Base58Check"
    THEN [text |-> "base58", checksum |-> "sha256d",
          body |-> <<a.version, a.data>>]
    ELSE [text |-> a.hrp, checksum |-> a.encoding,
          body |-> <<a.version, a.data>>]

\* btcutil.DecodeAddress(text, net): the kind of address a text decodes to
DecodeAddress(t, net) ==
    IF t.text = net.Bech32HRPSegwit
    THEN IF t.body[1] = 0 /\ t.checksum = "Bech32" /\ t.body[2].len = 20
         THEN "AddressWitnessPubKeyHash"
         ELSE IF t.body[1] = 0 /\ t.checksum = "Bech32" /\ t.body[2].len = 32
         THEN "AddressWitnessScriptHash"
         ELSE IF t.body[1] = 1 /\ t.checksum = "Bech32m" /\ t.body[2].len = 32
         THEN "AddressTaproot"
         ELSE "error"
    ELSE IF t.text = "base58" /\ t.checksum = "sha256d" /\ t.body[2].len = 20
    THEN IF t.body[1] = net.PubKeyHashAddrID THEN "AddressPubKeyHash"
         ELSE IF t.body[1] = net.ScriptHashAddrID THEN "AddressScriptHash"
         ELSE "error"
    ELSE "error"

(***************************************************************************)
(* The wallet.                                                             *)
(***************************************************************************)
\* Faulty variants of NewWallet, which the properties at the end of the
\* module must tell apart from it.  v names the fault:
\*   "unchecked"  the error of NewEntropy is ignored;
\*   "mistagged"  a failure of NewMaster is reported as one of the mnemonic;
\*   "neutered"   the wallet keeps the public-only master key;
\*   "truncated"  the mnemonic is made from the first 16 bytes of the entropy.
NewWalletVariant(bitSize, rnd, v) ==
    Let(NewEntropy(bitSize, rnd), LAMBDA e :
    IF e.err # NoErr /\ v # "unchecked"
    THEN [wallet |-> Nil, err |-> Wrap("Error generating entropy", e.err),
          calls |-> <<"NewEntropy">>]
    ELSE
    Let(NewMnemonic(IF v = "truncated" THEN SubSeq(e.entropy, 1, 16) ELSE e.entropy),
        LAMBDA m :
    IF m.err # NoErr
    THEN [wallet |-> Nil, err |-> Wrap("Error generating mnemonic", m.err),
          calls |-> <<"NewEntropy", "NewMnemonic">>]
    ELSE
    Let(NewSeed(m.mnemonic, ""), LAMBDA seed :
    Let(NewMaster(seed, MainNetParams), LAMBDA mk :
    IF mk.err # NoErr
    THEN [wallet |-> Nil,
          err |-> Wrap(IF v = "mistagged" THEN "Error generating mnemonic"
                       ELSE "Error generating master key", mk.err),
          calls |-> <<"NewEntropy", "NewMnemonic", "NewSeed", "NewMaster">>]
    ELSE [wallet |-> [Entropy |-> e.entropy, Mnemonic |-> m.mnemonic, Seed |-> seed,
                      MasterKey |-> IF v = "neutered" THEN Neuter(mk.key) ELSE mk.key],
          err |-> NoErr,
          calls |-> <<"NewEntropy", "NewMnemonic", "NewSeed", "NewMaster">>]))))

NewWalletUncheckedEntropy(bitSize, rnd) == NewWalletVariant(bitSize, rnd, "unchecked")
NewWalletMistagged(bitSize, rnd) == NewWalletVariant(bitSize, rnd, "mistagged")
NewWalletNeutered(bitSize, rnd) == NewWalletVariant(bitSize, rnd, "neutered")
NewWalletTruncated(bitSize, rnd) == NewWalletVariant(bitSize, rnd, "truncated")

\* NewWallet(bitSize): the wallet, the error, and the library calls made
NewWallet(bitSize, rnd) ==
    Let(NewEntropy(bitSize, rnd), LAMBDA e :
    IF e.err # NoErr
    THEN [wallet |-> Nil, err |-> Wrap("Error generating entropy", e.err),
          calls |-> <<"NewEntropy">>]
    ELSE
    Let(NewMnemonic(e.entropy), LAMBDA m :
    IF m.err # NoErr
    THEN [wallet |-> Nil, err |-> Wrap("Error generating mnemonic", m.err),
          calls |-> <<"NewEntropy", "NewMnemonic">>]
    ELSE
    Let(NewSeed(m.mnemonic, ""), LAMBDA seed :
    Let(NewMaster(seed, MainNetParams), LAMBDA mk :
    IF mk.err # NoErr
    THEN [wallet |-> Nil, err |-> Wrap("Error generating master key", mk.err),
          calls |-> <<"NewEntropy", "NewMnemonic", "NewSeed", "NewMaster">>]
    ELSE [wallet |-> [Entropy |-> e.entropy, Mnemonic |-> m.mnemonic,
                      Seed |-> seed, MasterKey |-> mk.key],
          err |-> NoErr,
          calls |-> <<"NewEntropy", "NewMnemonic", "NewSeed", "NewMaster">>]))))

\* a Derive call: the key it is made on and the index
Call(parent, index) == [parent |-> parent, index |-> index]

\* Faulty variants of ExtendMasterKey:
\*   "hardened change"  the change level is derived hardened (0' for 0);
\*   "in place"         the purpose key is stored in w.MasterKey.
ExtendMasterKeyVariant(w, bip, v) ==
    Let(IF v = "hardened change" THEN AddU32(HardenedKeyStart, 0) ELSE U32(0),
        LAMBDA changeIndex :
    Let(Derive(w.MasterKey, AddU32(HardenedKeyStart, bip)), LAMBDA purpose :
    Let(<<Call(w.MasterKey, AddU32(HardenedKeyStart, bip))>>, LAMBDA d1 :
    Let(IF v = "in place" THEN [w EXCEPT !.MasterKey = purpose.key] ELSE w, LAMBDA w1 :
    IF purpose.err # NoErr
    THEN [key |-> Nil, err |-> Wrap("error deriving purpose", purpose.err),
          w |-> w1, derives |-> d1]
    ELSE
    Let(Derive(purpose.key, AddU32(HardenedKeyStart, 0)), LAMBDA coinType :
    Let(Append(d1, Call(purpose.key, AddU32(HardenedKeyStart, 0))), LAMBDA d2 :
    IF coinType.err # NoErr
    THEN [key |-> Nil, err |-> Wrap("error deriving coin type", coinType.err),
          w |-> w1, derives |-> d2]
    ELSE
    Let(Derive(coinType.key, AddU32(HardenedKeyStart, 0)), LAMBDA account :
    Let(Append(d2, Call(coinType.key, AddU32(HardenedKeyStart, 0))), LAMBDA d3 :
    IF account.err # NoErr
    THEN [key |-> Nil, err |-> Wrap("error deriving account", account.err),
          w |-> w1, derives |-> d3]
    ELSE
    Let(Derive(account.key, changeIndex), LAMBDA change :
    Let(Append(d3, Call(account.key, changeIndex)), LAMBDA d4 :
    IF change.err # NoErr
    THEN [key |-> Nil, err |-> Wrap("error deriving change", change.err),
          w |-> w1, derives |-> d4]
    ELSE
    Let(Derive(change.key, U32(0)), LAMBDA addressIndex :
    Let(Append(d4, Call(change.key, U32(0))), LAMBDA d5 :
    IF addressIndex.err # NoErr
    THEN [key |-> Nil, err |-> Wrap("error deriving address index", addressIndex.err),
          w |-> w1, derives |-> d5]
    ELSE [key |-> addressIndex.key, err |-> NoErr, w |-> w1, derives |-> d5]
    ))))))))))))

ExtendMasterKeyHardenedChange(w, bip) == ExtendMasterKeyVariant(w, bip, "hardened change")
ExtendMasterKeyInPlace(w, bip) == ExtendMasterKeyVariant(w, bip, "in place")

\* (w *Wallet).ExtendMasterKey(bip): the leaf key, the error, the wallet as
\* the call leaves it, and the Derive calls made
ExtendMasterKey(w, bip) ==
    Let(Derive(w.MasterKey, AddU32(HardenedKeyStart, bip)), LAMBDA purpose :
    Let(<<Call(w.MasterKey, AddU32(HardenedKeyStart, bip))>>, LAMBDA d1 :
    IF purpose.err # NoErr
    THEN [key |-> Nil, err |-> Wrap("error deriving purpose", purpose.err),
          w |-> w, derives |-> d1]
    ELSE
    Let(Derive(purpose.key, AddU32(HardenedKeyStart, 0)), LAMBDA coinType :
    Let(Append(d1, Call(purpose.key, AddU32(HardenedKeyStart, 0))), LAMBDA d2 :
    IF coinType.err # NoErr
    THEN [key |-> Nil, err |-> Wrap("error deriving coin type", coinType.err),
          w |-> w, derives |-> d2]
    ELSE
    Let(Derive(coinType.key, AddU32(HardenedKeyStart, 0)), LAMBDA account :
    Let(Append(d2, Call(coinType.key, AddU32(HardenedKeyStart, 0))), LAMBDA d3 :
    IF account.err # NoErr
    THEN [key |-> Nil, err |-> Wrap("error deriving account", account.err),
          w |-> w, derives |-> d3]
    ELSE
    Let(Derive(account.key, U32(0)), LAMBDA change :
    Let(Append(d3, Call(account.key, U32(0))), LAMBDA d4 :
    IF change.err # NoErr
    THEN [key |-> Nil, err |-> Wrap("error deriving change", change.err),
          w |-> w, derives |-> d4]
    ELSE
    Let(Derive(change.key, U32(0)), LAMBDA addressIndex :
    Let(Append(d4, Call(change.key, U32(0))), LAMBDA d5 :
    IF addressIndex.err # NoErr
    THEN [key |-> Nil, err |-> Wrap("error deriving address index", addressIndex.err),
          w |-> w, derives |-> d5]
    ELSE [key |-> addressIndex.key, err |-> NoErr, w |-> w, derives |-> d5]
    ))))))))))

\* (w *Wallet).DeriveP2PKHAddress(): the address, the error, and the wallet
\* as the call leaves it
DeriveP2PKHAddress(w) ==
    Let(ExtendMasterKey(w, 44), LAMBDA addressIndex :
    IF addressIndex.err # NoErr
    THEN [address |-> Nil, err |-> Wrap("error extending master key", addressIndex.err),
          w |-> addressIndex.w]
    ELSE
    Let(Address(addressIndex.key, MainNetParams), LAMBDA address :
    IF address.err # NoErr
    THEN [address |-> Nil, err |-> Wrap("error generating address", address.err),
          w |-> addressIndex.w]
    ELSE [address |-> address.address, err |-> NoErr, w |-> addressIndex.w]))

\* A faulty variant of DeriveP2WPKHInP2SHAddress: the witness address is
\* returned as it is, without the P2SH wrapping.
DeriveP2WPKHInP2SHAddressUnwrapped(w) ==
    Let(ExtendMasterKey(w, 49), LAMBDA addressIndex :
    IF addressIndex.err # NoErr
    THEN [address |-> Nil, err |-> Wrap("error extending master key", addressIndex.err),
          w |-> addressIndex.w]
    ELSE
    Let(ECPubKey(addressIndex.key), LAMBDA pubKey :
    IF pubKey.err # NoErr
    THEN [address |-> Nil, err |-> Wrap("error getting public key", pubKey.err),
          w |-> addressIndex.w]
    ELSE
    Let(Hash160(SerializeCompressed(pubKey.key)), LAMBDA pubKeyHash :
    Let(NewAddressWitnessPubKeyHash(pubKeyHash, MainNetParams), LAMBDA witnessPubKeyHash :
    IF witnessPubKeyHash.err # NoErr
    THEN [address |-> Nil,
          err |-> Wrap("error generating P2WPKH address", witnessPubKeyHash.err),
          w |-> addressIndex.w]
    ELSE [address |-> witnessPubKeyHash.address, err |-> NoErr, w |-> addressIndex.w]
    ))))

\* (w *Wallet).DeriveP2WPKHInP2SHAddress()
DeriveP2WPKHInP2SHAddress(w) ==
    Let(ExtendMasterKey(w, 49), LAMBDA addressIndex :
    IF addressIndex.err # NoErr
    THEN [address |-> Nil, err |-> Wrap("error extending master key", addressIndex.err),
          w |-> addressIndex.w]
    ELSE
    Let(ECPubKey(addressIndex.key), LAMBDA pubKey :
    IF pubKey.err # NoErr
    THEN [address |-> Nil, err |-> Wrap("error getting public key", pubKey.err),
          w |-> addressIndex.w]
    ELSE
    Let(Hash160(SerializeCompressed(pubKey.key)), LAMBDA pubKeyHash :
    Let(NewAddressWitnessPubKeyHash(pubKeyHash, MainNetParams), LAMBDA witnessPubKeyHash :
    IF witnessPubKeyHash.err # NoErr
    THEN [address |-> Nil,
          err |-> Wrap("error generating P2WPKH address", witnessPubKeyHash.err),
          w |-> addressIndex.w]
    ELSE
    Let(PayToAddrScript(witnessPubKeyHash.address), LAMBDA script :
    IF script.err # NoErr
    THEN [address |-> Nil, err |-> Wrap("error creating P2SH script", script.err),
          w |-> addressIndex.w]
    ELSE
    Let(NewAddressScriptHash(script.script, MainNetParams), LAMBDA p2shAddress :
    IF p2shAddress.err # NoErr
    THEN [address |-> Nil, err |-> Wrap("error generating P2SH address", p2shAddress.err),
          w |-> addressIndex.w]
    ELSE [address |-> p2shAddress.address, err |-> NoErr, w |-> addressIndex.w]
    ))))))

\* A faulty variant of DeriveP2WPKHAddress: the key of purpose 49 is used.
DeriveP2WPKHAddressFrom49(w) ==
    Let(ExtendMasterKey(w, 49), LAMBDA addressIndex :
    IF addressIndex.err # NoErr
    THEN [address |-> Nil, err |-> Wrap("error extending master key", addressIndex.err),
          w |-> addressIndex.w]
    ELSE
    Let(ECPubKey(addressIndex.key), LAMBDA pubKey :
    IF pubKey.err # NoErr
    THEN [address |-> Nil, err |-> Wrap("error getting public key", pubKey.err),
          w |-> addressIndex.w]
    ELSE
    Let(Hash160(SerializeCompressed(pubKey.key)), LAMBDA pubKeyHash :
    Let(NewAddressWitnessPubKeyHash(pubKeyHash, MainNetParams), LAMBDA witnessPubKeyHash :
    IF witnessPubKeyHash.err # NoErr
    THEN [address |-> Nil,
          err |-> Wrap("error generating P2WPKH address", witnessPubKeyHash.err),
          w |-> addressIndex.w]
    ELSE [address |-> witnessPubKeyHash.address, err |-> NoErr, w |-> addressIndex.w]
    ))))

\* (w *Wallet).DeriveP2WPKHAddress()
DeriveP2WPKHAddress(w) ==
    Let(ExtendMasterKey(w, 84), LAMBDA addressIndex :
    IF addressIndex.err # NoErr
    THEN [address |-> Nil, err |-> Wrap("error extending master key", addressIndex.err),
          w |-> addressIndex.w]
    ELSE
    Let(ECPubKey(addressIndex.key), LAMBDA pubKey :
    IF pubKey.err # NoErr
    THEN [address |-> Nil, err |-> Wrap("error getting public key", pubKey.err),
          w |-> addressIndex.w]
    ELSE
    Let(Hash160(SerializeCompressed(pubKey.key)), LAMBDA pubKeyHash :
    Let(NewAddressWitnessPubKeyHash(pubKeyHash, MainNetParams), LAMBDA witnessPubKeyHash :
    IF witnessPubKeyHash.err # NoErr
    THEN [address |-> Nil,
          err |-> Wrap("error generating P2WPKH address", witnessPubKeyHash.err),
          w |-> addressIndex.w]
    ELSE [address |-> witnessPubKeyHash.address, err |-> NoErr, w |-> addressIndex.w]
    ))))

\* (w *Wallet).DeriveTaprootAddress()
DeriveTaprootAddress(w) ==
    Let(ExtendMasterKey(w, 86), LAMBDA addressIndex :
    IF addressIndex.err # NoErr
    THEN [address |-> Nil, err |-> Wrap("error extending master key", addressIndex.err),
          w |-> addressIndex.w]
    ELSE
    Let(ECPubKey(addressIndex.key), LAMBDA pubKey :
    IF pubKey.err # NoErr
    THEN [address |-> Nil, err |-> Wrap("error getting public key", pubKey.err),
          w |-> addressIndex.w]
    ELSE
    Let(ComputeTaprootKeyNoScript(pubKey.key), LAMBDA tapKey :
    Let(NewAddressTaproot(SerializePubKey(tapKey), MainNetParams), LAMBDA taprootAddress :
    IF taprootAddress.err # NoErr
    THEN [address |-> Nil,
          err |-> Wrap("error generating Taproot address", taprootAddress.err),
          w |-> addressIndex.w]
    ELSE [address |-> taprootAddress.address, err |-> NoErr, w |-> addressIndex.w]
    ))))

(***************************************************************************)
(* main.                                                                   *)
(***************************************************************************)
VARIABLES
    bits,               \* the -bits flag
    count,              \* the -count flag
    out,                \* the -out flag, a string (a sequence of characters)
    pc,                 \* where main is
    i,                  \* the generation loop's counter
    wallet,             \* the loop's wallet (a *Wallet), Nil outside an iteration
    p2pkhAddress,       \* the loop's four addresses, Nil until derived
    p2wpkhP2shAddress,
    p2wpkhAddress,
    taprootAddress,
    wallets,            \* the slice of Generated
    fatal,              \* what log.Fatalf printed before exiting, or NoErr
    stdout,             \* the lines printed
    file,               \* the output file: whether it was created, and its rows
    writer,             \* the rows the csv writer has accepted
    flushed,            \* whether the deferred Flush wrote every accepted row
    j,                  \* the output loops' counter
    attempts,           \* history: the number of NewWallet calls made
    libCalls,           \* history: the library calls of the last NewWallet call
    fresh,              \* history: the loop's wallet as NewWallet returned it
    made,               \* history: the wallets NewWallet returned, in order
    results,            \* test driver: what each Derive*Address call returned
    callLog             \* test driver: the calls made, in order

vars == <<bits, count, out, pc, i, wallet, p2pkhAddress, p2wpkhP2shAddress,
          p2wpkhAddress, taprootAddress, wallets, fatal, stdout, file, writer,
          flushed, j, attempts, libCalls, fresh, made, results, callLog>>

\* the flag values explored
BitsInputs == {-32, 0, 64, 128, 129, 160, 192, 224, 256, 288}
CountInputs == -1 .. MaxCount
OutInputs == {<<>>, <<"w", ".", "c", "s", "v">>}

\* the output file before os.Create
NoFile == [created |-> FALSE, rows |-> <<>>]

Formats == {"P2PKH", "P2WPKHInP2SH", "P2WPKH", "Taproot"}

Init ==
    /\ bits \in BitsInputs
    /\ count \in CountInputs
    /\ out \in OutInputs
    /\ pc = "loop"
    /\ i = 0
    /\ wallet = Nil
    /\ p2pkhAddress = Nil
    /\ p2wpkhP2shAddress = Nil
    /\ p2wpkhAddress = Nil
    /\ taprootAddress = Nil
    /\ wallets = <<>>
    /\ fatal = NoErr
    /\ stdout = <<>>
    /\ file = NoFile
    /\ writer = <<>>
    /\ flushed = FALSE
    /\ j = 0
    /\ attempts = 0
    /\ libCalls = <<>>
    /\ fresh = Nil
    /\ made = <<>>
    /\ results = [f \in Formats |-> {}]
    /\ callLog = <<>>

outputVars == <<stdout, file, writer, flushed, j>>
driverVars == <<results, callLog>>
flagVars == <<bits, count, out>>

\* log.Fatalf(format, err): the message is printed and the process exits
\* with status 1; deferred calls do not run
Fatalf(msg, err) ==
    /\ fatal' = Wrap(msg, err)
    /\ pc' = "exit1"

\* A variant of the call of NewWallet with the other batch policy: a wallet
\* that fails is reported and skipped, and the loop goes on with the next.
CallNewWalletSkip ==
    /\ pc = "loop"
    /\ i < count
    /\ \E rnd \in RandOutcomes :
          \E r \in {NewWallet(bits, rnd)} :
              /\ attempts' = attempts + 1
              /\ libCalls' = r.calls
              /\ IF r.err # NoErr
                 THEN /\ stdout' = Append(stdout, Wrap("Error generating wallet", r.err))
                      /\ i' = i + 1
                      /\ UNCHANGED <<wallet, fresh, made, pc>>
                 ELSE /\ wallet' = r.wallet
                      /\ fresh' = r.wallet
                      /\ made' = Append(made, r.wallet)
                      /\ pc' = "DeriveP2PKHAddress"
                      /\ UNCHANGED <<stdout, i>>
    /\ UNCHANGED <<flagVars, p2pkhAddress, p2wpkhP2shAddress, p2wpkhAddress,
                   taprootAddress, wallets, fatal, file, writer, flushed, j, driverVars>>

\* main.go 33-37: the loop test and the call of NewWallet
CallNewWallet ==
    /\ pc = "loop"
    /\ i < count
    /\ \E rnd \in RandOutcomes :
          \E r \in {NewWallet(bits, rnd)} :
              /\ attempts' = attempts + 1
              /\ libCalls' = r.calls
              /\ wallet' = r.wallet
              /\ fresh' = r.wallet
              /\ IF r.err # NoErr
                 THEN /\ Fatalf("Error generating wallet", r.err)
                      /\ UNCHANGED made
                 ELSE /\ made' = Append(made, r.wallet)
                      /\ pc' = "DeriveP2PKHAddress"
                      /\ UNCHANGED fatal
    /\ UNCHANGED <<flagVars, i, p2pkhAddress, p2wpkhP2shAddress, p2wpkhAddress,
                   taprootAddress, wallets, outputVars, driverVars>>

\* main.go 40-43
CallDeriveP2PKHAddress ==
    /\ pc = "DeriveP2PKHAddress"
    /\ \E r \in {DeriveP2PKHAddress(wallet)} :
           /\ wallet' = r.w
           /\ IF r.err # NoErr
              THEN /\ Fatalf("Error deriving BIP-44 P2PKH address", r.err)
                   /\ UNCHANGED p2pkhAddress
              ELSE /\ p2pkhAddress' = r.address
                   /\ pc' = "DeriveP2WPKHInP2SHAddress"
                   /\ UNCHANGED fatal
    /\ UNCHANGED <<flagVars, i, p2wpkhP2shAddress, p2wpkhAddress, taprootAddress,
                   wallets, outputVars, attempts, libCalls, fresh, made, driverVars>>

\* main.go 46-49
CallDeriveP2WPKHInP2SHAddress ==
    /\ pc = "DeriveP2WPKHInP2SHAddress"
    /\ \E r \in {DeriveP2WPKHInP2SHAddress(wallet)} :
           /\ wallet' = r.w
           /\ IF r.err # NoErr
              THEN /\ Fatalf("Error deriving BIP-49 P2WPKH-in-P2SH address", r.err)
                   /\ UNCHANGED p2wpkhP2shAddress
              ELSE /\ p2wpkhP2shAddress' = r.address
                   /\ pc' = "DeriveP2WPKHAddress"
                   /\ UNCHANGED fatal
    /\ UNCHANGED <<flagVars, i, p2pkhAddress, p2wpkhAddress, taprootAddress,
                   wallets, outputVars, attempts, libCalls, fresh, made, driverVars>>

\* main.go 52-55
CallDeriveP2WPKHAddress ==
    /\ pc = "DeriveP2WPKHAddress"
    /\ \E r \in {DeriveP2WPKHAddress(wallet)} :
           /\ wallet' = r.w
           /\ IF r.err # NoErr
              THEN /\ Fatalf("Error deriving BIP-84 native SegWit address", r.err)
                   /\ UNCHANGED p2wpkhAddress
              ELSE /\ p2wpkhAddress' = r.address
                   /\ pc' = "DeriveTaprootAddress"
                   /\ UNCHANGED fatal
    /\ UNCHANGED <<flagVars, i, p2pkhAddress, p2wpkhP2shAddress, taprootAddress,
                   wallets, outputVars, attempts, libCalls, fresh, made, driverVars>>

\* main.go 58-61
CallDeriveTaprootAddress ==
    /\ pc = "DeriveTaprootAddress"
    /\ \E r \in {DeriveTaprootAddress(wallet)} :
           /\ wallet' = r.w
           /\ IF r.err # NoErr
              THEN /\ Fatalf("Error deriving Taproot address", r.err)
                   /\ UNCHANGED taprootAddress
              ELSE /\ taprootAddress' = r.address
                   /\ pc' = "append"
                   /\ UNCHANGED fatal
    /\ UNCHANGED <<flagVars, i, p2pkhAddress, p2wpkhP2shAddress, p2wpkhAddress,
                   wallets, outputVars, attempts, libCalls, fresh, made, driverVars>>

\* main.go 63-69: the Generated value of the iteration
Generated(w, a44, a49, a84, a86) ==
    [P2pkhAddress |-> a44, P2wpkhP2shAddress |-> a49, P2wpkhAddress |-> a84,
     TaprootAddress |-> a86, Mnemonic |-> w.Mnemonic]

\* main.go 63-70: the append, the end of the iteration (its variables go
\* out of scope) and i++
AppendGenerated ==
    /\ pc = "append"
    /\ wallets' = Append(wallets, Generated(wallet, p2pkhAddress, p2wpkhP2shAddress,
                                            p2wpkhAddress, taprootAddress))
    /\ i' = i + 1
    /\ wallet' = Nil
    /\ fresh' = Nil
    /\ p2pkhAddress' = Nil
    /\ p2wpkhP2shAddress' = Nil
    /\ p2wpkhAddress' = Nil
    /\ taprootAddress' = Nil
    /\ pc' = "loop"
    /\ UNCHANGED <<flagVars, fatal, outputVars, attempts, libCalls, made, driverVars>>

RECURSIVE Digits(_)
Digits(n) == IF n < 10 THEN <<n>> ELSE Append(Digits(n \div 10), n % 10)
\* strconv.Itoa(n): the decimal digits, after "-" for a negative number
Itoa(n) == IF n < 0 THEN <<"-">> \o Digits(0 - n) ELSE Digits(n)

\* main.go 85
header ==
    <<"#", "Legacy, BIP-44 P2PKH Address",
      "Nested Segwit, BIP-49 P2WPKH-in-P2SH Address",
      "Native Segwit, BIP-84 P2WPKH Address", "Taproot, BIP-86 P2TR Address",
      "Mnemonic">>

\* main.go 93-100: the CSV row of wallets[k] (k is the 0-based range index)
row(k, g) ==
    <<Itoa(k + 1), EncodeAddress(g.P2pkhAddress), EncodeAddress(g.P2wpkhP2shAddress),
      EncodeAddress(g.P2wpkhAddress), EncodeAddress(g.TaprootAddress), g.Mnemonic>>

\* main.go 112-124: the lines printed for wallets[k]
PrintedLines(k, g, n) ==
    << <<"Mnemonic:", g.Mnemonic>>,
       <<"BIP-44 P2PKH Address:", EncodeAddress(g.P2pkhAddress)>>,
       <<"BIP-49 P2WPKH-in-P2SH Address:", EncodeAddress(g.P2wpkhP2shAddress)>>,
       <<"BIP-84 P2WPKH Address:", EncodeAddress(g.P2wpkhAddress)>>,
       <<"BIP-86 P2TR Address:", EncodeAddress(g.TaprootAddress)>> >>
    \o (IF k # n - 1 THEN << <<"">> >> ELSE <<>>)

genVars == <<i, wallet, p2pkhAddress, p2wpkhP2shAddress, p2wpkhAddress,
             taprootAddress, wallets, fatal, attempts, libCalls, fresh, made>>

\* main.go 72-83: the loop is over; with -out the file is created and the
\* csv writer set up, without it the wallets are printed
OpenOutput ==
    /\ pc = "loop"
    /\ ~(i < count)
    /\ IF Len(out) > 0
       THEN \E created \in BOOLEAN :
               IF created
               THEN /\ file' = [created |-> TRUE, rows |-> <<>>]
                    /\ pc' = "header"
                    /\ UNCHANGED stdout
               ELSE /\ stdout' = Append(stdout, <<"Error creating file:", "err">>)
                    /\ pc' = "done"
                    /\ UNCHANGED file
       ELSE /\ pc' = "print"
            /\ UNCHANGED <<stdout, file>>
    /\ j' = 0
    /\ UNCHANGED <<flagVars, genVars, writer, flushed, driverVars>>

\* The deferred writer.Flush() and file.Close() of a return after an error
\* of the writer: the writer's error is sticky, so Flush writes nothing, and
\* the file holds the rows that had left the buffer before, a prefix.
ReturnAfterWriteError(msg) ==
    /\ stdout' = Append(stdout, <<msg, "err">>)
    /\ \E n \in 0 .. Len(writer) : file' = [created |-> TRUE, rows |-> SubSeq(writer, 1, n)]
    /\ flushed' = FALSE
    /\ pc' = "done"
    /\ UNCHANGED <<writer, j>>

\* main.go 87-90
WriteHeader ==
    /\ pc = "header"
    /\ \E ok \in BOOLEAN :
          IF ok
          THEN /\ writer' = Append(writer, header)
               /\ pc' = "rows"
               /\ UNCHANGED <<stdout, file, flushed, j>>
          ELSE ReturnAfterWriteError("Error writing header to file:")
    /\ UNCHANGED <<flagVars, genVars, driverVars>>

\* main.go 92-106: one iteration of the loop over wallets
WriteRow ==
    /\ pc = "rows"
    /\ j < Len(wallets)
    /\ \E ok \in BOOLEAN :
          IF ok
          THEN /\ writer' = Append(writer, row(j, wallets[j + 1]))
               /\ j' = j + 1
               /\ UNCHANGED <<stdout, file, flushed, pc>>
          ELSE ReturnAfterWriteError("Error writing record to file:")
    /\ UNCHANGED <<flagVars, genVars, driverVars>>

\* main.go 108 and the deferred writer.Flush() and file.Close(): Flush
\* returns nothing, so a failed flush (the file keeps a prefix of the rows)
\* goes unnoticed
SavedTo ==
    /\ pc = "rows"
    /\ ~(j < Len(wallets))
    /\ stdout' = Append(stdout, <<"Saved to:", out>>)
    /\ \E n \in 0 .. Len(writer) :
          /\ file' = [created |-> TRUE, rows |-> SubSeq(writer, 1, n)]
          /\ flushed' = (n = Len(writer))
    /\ pc' = "done"
    /\ UNCHANGED <<flagVars, genVars, writer, j, driverVars>>

\* main.go 111-125: one iteration of the printing loop
PrintWallet ==
    /\ pc = "print"
    /\ j < Len(wallets)
    /\ stdout' = stdout \o PrintedLines(j, wallets[j + 1], count)
    /\ j' = j + 1
    /\ UNCHANGED <<flagVars, genVars, file, writer, flushed, pc, driverVars>>

\* main.go 111, 126: the printing loop is over and main returns
PrintDone ==
    /\ pc = "print"
    /\ ~(j < Len(wallets))
    /\ pc' = "done"
    /\ UNCHANGED <<flagVars, genVars, outputVars, driverVars>>

Next ==
    \/ CallNewWallet
    \/ CallDeriveP2PKHAddress
    \/ CallDeriveP2WPKHInP2SHAddress
    \/ CallDeriveP2WPKHAddress
    \/ CallDeriveTaprootAddress
    \/ AppendGenerated
    \/ OpenOutput
    \/ WriteHeader
    \/ WriteRow
    \/ SavedTo
    \/ PrintWallet
    \/ PrintDone

Spec == Init /\ [][Next]_vars

(***************************************************************************)
(* A test driver for one wallet: it makes a wallet with NewWallet and then *)
(* calls the four Derive*Address methods in any order, any number of times *)
(* (up to MaxCalls), keeping what each call returned.                      *)
(***************************************************************************)
InitDriver ==
    /\ Init
    /\ count = 1
    /\ out = <<>>

mainVars == <<flagVars, i, p2pkhAddress, p2wpkhP2shAddress, p2wpkhAddress,
              taprootAddress, wallets, fatal, outputVars>>

DriverNewWallet ==
    /\ pc = "loop"
    /\ \E rnd \in RandOutcomes :
          \E r \in {NewWallet(bits, rnd)} :
              /\ attempts' = attempts + 1
              /\ libCalls' = r.calls
              /\ wallet' = r.wallet
              /\ fresh' = r.wallet
              /\ made' = IF r.err # NoErr THEN made ELSE Append(made, r.wallet)
              /\ pc' = IF r.err # NoErr THEN "done" ELSE "driver"
    /\ UNCHANGED <<mainVars, driverVars>>

\* the driver's record of a call of the method of format f that returned r
Returned(f, r) ==
    /\ Len(callLog) < MaxCalls
    /\ wallet' = r.w
    /\ results' = [results EXCEPT ![f] = @ \cup {[address |-> r.address, err |-> r.err]}]
    /\ callLog' = Append(callLog, f)
    /\ UNCHANGED <<mainVars, pc, attempts, libCalls, fresh, made>>

DriverDeriveP2PKHAddress ==
    /\ pc = "driver"
    /\ \E r \in {DeriveP2PKHAddress(wallet)} : Returned("P2PKH", r)

DriverDeriveP2WPKHInP2SHAddress ==
    /\ pc = "driver"
    /\ \E r \in {DeriveP2WPKHInP2SHAddress(wallet)} : Returned("P2WPKHInP2SH", r)

DriverDeriveP2WPKHAddress ==
    /\ pc = "driver"
    /\ \E r \in {DeriveP2WPKHAddress(wallet)} : Returned("P2WPKH", r)

DriverDeriveTaprootAddress ==
    /\ pc = "driver"
    /\ \E r \in {DeriveTaprootAddress(wallet)} : Returned("Taproot", r)

NextDriver ==
    \/ DriverNewWallet
    \/ DriverDeriveP2PKHAddress
    \/ DriverDeriveP2WPKHInP2SHAddress
    \/ DriverDeriveP2WPKHAddress
    \/ DriverDeriveTaprootAddress

SpecDriver == InitDriver /\ [][NextDriver]_vars

(***************************************************************************)
(* Properties.  Those of main are stated for Spec, the one of the test     *)
(* driver for SpecDriver.                                                  *)
(***************************************************************************)
Purposes == {44, 49, 84, 86}

\* the path m/bip'/0'/0'/0/0
PathOf(bip) ==
    <<AddU32(HardenedKeyStart, bip), HardenedKeyStart, HardenedKeyStart, U32(0), U32(0)>>

\* the public key an address commits to
PubKeyOf(a) ==
    IF a.encoding = "Bech32m" THEN a.data.of.internal
    ELSE IF a.encoding = "Base58Check" /\ a.version = 5 THEN a.data.of.of[3].of.of
    ELSE a.data.of.of

AllCalls == <<"NewEntropy", "NewMnemonic", "NewSeed", "NewMaster">>

\* C1: NewWallet fails with the entropy size error and returns no wallet for
\* every bit size that is not 128, 160, 192, 224 or 256; for these five the
\* entropy step never fails because of the size, and the entropy of a wallet
\* has exactly bits/8 bytes.
C1_EntropySize ==
    attempts > 0 =>
        IF bits \notin ValidBitSizes
        THEN /\ pc = "exit1"
             /\ fatal = <<"Error generating wallet", "Error generating entropy">>
                            \o ErrEntropyLengthInvalid
             /\ libCalls = <<"NewEntropy">>
             /\ wallet = Nil
             /\ made = <<>>
        ELSE /\ fatal # NoErr => SubSeq(fatal, 3, Len(fatal)) # ErrEntropyLengthInvalid
             /\ libCalls = <<"NewEntropy">> =>
                    fatal = <<"Error generating wallet", "Error generating entropy">>
                                \o ErrRandRead
             /\ \A k \in DOMAIN made : Len(made[k].Entropy) = bits \div 8

\* a bit size that is a whole number of bytes, but not a valid one, was refused
C1_Witness ==
    /\ bits = 64
    /\ attempts = 1
    /\ pc = "exit1"

\* C2 (as the code has it): ExtendMasterKey(bip) applies the path
\* bip'/0'/0'/0/0 to the master key, three hardened derivations (bip', 0',
\* 0') followed by two non-hardened ones (0, 0), each made on the key the
\* one before returned, and returns the leaf key, of depth 5.
C2_ThreeHardenedTwoNormal ==
    \A k \in DOMAIN made : \A bip \in Purposes :
        \E r \in {ExtendMasterKey(made[k], bip)} :
            /\ Len(r.derives) <= 5
            /\ \A n \in DOMAIN r.derives :
                  /\ r.derives[n].index = PathOf(bip)[n]
                  /\ IsHardened(r.derives[n].index) = (n <= 3)
                  /\ r.derives[n].parent =
                         [made[k].MasterKey EXCEPT !.path = SubSeq(PathOf(bip), 1, n - 1)]
            /\ r.err = NoErr =>
                  /\ Len(r.derives) = 5
                  /\ r.key = [made[k].MasterKey EXCEPT !.path = PathOf(bip)]
                  /\ Len(r.key.path) = 5
            /\ r.err # NoErr => r.key = Nil

\* the leaf keys of a wallet have been derived
C2_Witness ==
    /\ pc = "DeriveP2WPKHInP2SHAddress"
    /\ Len(made) = 1
    /\ ExtendMasterKey(wallet, 44).err = NoErr
    /\ Len(ExtendMasterKey(wallet, 44).key.path) = 5

\* C2 as stated: the leaf key is reached by four hardened derivations
\* followed by one non-hardened derivation.
C2_FourHardenedOneNormal ==
    \A k \in DOMAIN made : \A bip \in Purposes :
        \E r \in {ExtendMasterKey(made[k], bip)} :
            r.err = NoErr =>
                /\ Len(r.key.path) = 5
                /\ \A n \in 1 .. 5 : IsHardened(r.derives[n].index) = (n <= 4)

IterationPcs == {"DeriveP2PKHAddress", "DeriveP2WPKHInP2SHAddress",
                 "DeriveP2WPKHAddress", "DeriveTaprootAddress", "append"}

\* C3 (as the code has it): a failure while generating wallet i or deriving
\* its addresses halts the whole batch.  The error is printed with its cause
\* and the process exits at once: nothing is output, so the wallets
\* generated before i are lost, and no wallet after i is generated.
C3_HaltAll ==
    /\ (fatal # NoErr) = (pc = "exit1")
    /\ pc = "exit1" =>
          /\ Head(fatal) \in {"Error generating wallet",
                              "Error deriving BIP-44 P2PKH address",
                              "Error deriving BIP-49 P2WPKH-in-P2SH address",
                              "Error deriving BIP-84 native SegWit address",
                              "Error deriving Taproot address"}
          /\ Len(fatal) > 1
          /\ stdout = <<>>
          /\ file = NoFile
          /\ writer = <<>>
          /\ i = Len(wallets)
          /\ i < count
          /\ attempts = i + 1
          /\ ~ENABLED Next
    /\ pc # "exit1" =>
          attempts = Len(wallets) + (IF pc \in IterationPcs THEN 1 ELSE 0)
    /\ (stdout # <<>> \/ file # NoFile) => Len(wallets) = Max(count, 0)

\* the second wallet of a batch failed after the first had been generated
C3_Witness ==
    /\ pc = "exit1"
    /\ Len(wallets) = 1
    /\ count = 2

\* C3 as stated: a failure aborts only wallet i.  When the program has
\* ended, every wallet of the batch has been attempted, and the wallets
\* that were generated have been output.
C3_SiblingsSurvive ==
    pc \in {"exit1", "done"} =>
        /\ attempts = Max(count, 0)
        /\ Len(wallets) > 0 => (stdout # <<>> \/ file # NoFile)

\* C4: NewWallet chains entropy, mnemonic, seed and master key in that
\* order.  A failure of a stage stops the chain (the later stages are not
\* called, no stage is called twice), the wallet returned is nil, and the
\* error names the stage that failed and carries its error.  On success the
\* four fields are set, each the output of its stage for the field before.
C4_StagesChained ==
    /\ \A k \in DOMAIN made :
          /\ \E rnd \in RandOutcomes :
                NewEntropy(bits, rnd) = [entropy |-> made[k].Entropy, err |-> NoErr]
          /\ NewMnemonic(made[k].Entropy) = [mnemonic |-> made[k].Mnemonic, err |-> NoErr]
          /\ made[k].Seed = NewSeed(made[k].Mnemonic, "")
          /\ NewMaster(made[k].Seed, MainNetParams) =
                 [key |-> made[k].MasterKey, err |-> NoErr]
    /\ attempts > 0 =>
          IF fatal # NoErr /\ Head(fatal) = "Error generating wallet"
          THEN /\ wallet = Nil
               /\ Len(made) = attempts - 1
               /\ \E cause \in {SubSeq(fatal, 3, Len(fatal))} :
                     \/ /\ fatal[2] = "Error generating entropy"
                        /\ libCalls = SubSeq(AllCalls, 1, 1)
                        /\ cause \in {ErrEntropyLengthInvalid, ErrRandRead}
                     \/ /\ fatal[2] = "Error generating mnemonic"
                        /\ libCalls = SubSeq(AllCalls, 1, 2)
                        /\ cause = ErrEntropyLengthInvalid
                     \/ /\ fatal[2] = "Error generating master key"
                        /\ libCalls = AllCalls
                        /\ cause \in {ErrInvalidSeedLen, ErrUnusableSeed}
          ELSE /\ libCalls = AllCalls
               /\ Len(made) = attempts
               /\ pc \in IterationPcs => wallet = made[Len(made)]

\* the master key stage failed for the second wallet of a batch
C4_Witness ==
    /\ pc = "exit1"
    /\ Len(made) = 1
    /\ fatal[2] = "Error generating master key"
    /\ libCalls = AllCalls

\* the address of format f that was derived for wallet w is a, if any: it
\* commits to the public key of the leaf key of purpose bip of w and
\* decodes, on mainnet, as an address of the kind of f
Paired(a, w, bip, kind, version) ==
    a # Nil =>
        /\ PubKeyOf(a) = ECPubKey(ExtendMasterKey(w, bip).key).key
        /\ PubKeyOf(a).seed = w.Seed
        /\ PubKeyOf(a).path = PathOf(bip)
        /\ \A other \in Purposes \ {bip} : PubKeyOf(a).path # PathOf(other)
        /\ DecodeAddress(EncodeAddress(a), MainNetParams) = kind
        /\ a.version = version

\* C5: each address format is encoded, on mainnet, from the leaf key of its
\* own purpose: P2PKH from 44, P2WPKH-in-P2SH from 49, P2WPKH (witness
\* version 0) from 84, P2TR (witness version 1) from 86, never from the leaf
\* key of another purpose.
C5_PurposeMatchesEncoder ==
    /\ pc \in IterationPcs =>
          /\ Paired(p2pkhAddress, wallet, 44, "AddressPubKeyHash",
                    MainNetParams.PubKeyHashAddrID)
          /\ Paired(p2wpkhP2shAddress, wallet, 49, "AddressScriptHash",
                    MainNetParams.ScriptHashAddrID)
          /\ Paired(p2wpkhAddress, wallet, 84, "AddressWitnessPubKeyHash", 0)
          /\ Paired(taprootAddress, wallet, 86, "AddressTaproot", 1)
    /\ \A k \in DOMAIN wallets :
          /\ Paired(wallets[k].P2pkhAddress, made[k], 44, "AddressPubKeyHash",
                    MainNetParams.PubKeyHashAddrID)
          /\ Paired(wallets[k].P2wpkhP2shAddress, made[k], 49, "AddressScriptHash",
                    MainNetParams.ScriptHashAddrID)
          /\ Paired(wallets[k].P2wpkhAddress, made[k], 84, "AddressWitnessPubKeyHash", 0)
          /\ Paired(wallets[k].TaprootAddress, made[k], 86, "AddressTaproot", 1)

\* the four addresses of a wallet have been derived
C5_Witness ==
    /\ pc = "append"
    /\ p2pkhAddress # Nil
    /\ p2wpkhP2shAddress # Nil
    /\ p2wpkhAddress # Nil
    /\ taprootAddress # Nil

\* what a call of the method of format f returns for wallet w
Outcome(f, w) ==
    LET returned(r) == [address |-> r.address, err |-> r.err]
    IN  CASE f = "P2PKH" -> returned(DeriveP2PKHAddress(w))
          [] f = "P2WPKHInP2SH" -> returned(DeriveP2WPKHInP2SHAddress(w))
          [] f = "P2WPKH" -> returned(DeriveP2WPKHAddress(w))
          [] f = "Taproot" -> returned(DeriveTaprootAddress(w))

C7_HardenedOnlyFromPrivate ==
    /\ ErrDeriveHardFromPublic \notin
           {NoErr, ErrDeriveBeyondMaxDepth, ErrInvalidChild, ErrUnusableSeed,
            ErrInvalidSeedLen}
    /\ fatal # NoErr => fatal[Len(fatal)] # ErrDeriveHardFromPublic[1]
    /\ \A k \in DOMAIN made :
          /\ made[k].MasterKey.isPrivate
          /\ \A bip \in Purposes :
                \E r \in {ExtendMasterKey(made[k], bip)} :
                    /\ r.err # NoErr =>
                           SubSeq(r.err, 2, Len(r.err)) # ErrDeriveHardFromPublic
                    /\ \A n \in DOMAIN r.derives :
                          \E d \in {r.derives[n]} :
                              /\ d.parent.isPrivate
                              /\ Derive(Neuter(d.parent), d.index).err
                                     = ErrDeriveHardFromPublic
                                 <=> IsHardened(d.index)
                              /\ IsHardened(d.index) =>
                                     Derive(Neuter(d.parent), d.index).key = Nil

\* the five derivations of a purpose were made for a wallet
C7_Witness ==
    /\ pc = "DeriveP2WPKHAddress"
    /\ wallet.MasterKey.isPrivate
    /\ Len(ExtendMasterKey(wallet, 49).derives) = 5
    /\ IsHardened(ExtendMasterKey(wallet, 49).derives[3].index)

\* a word index with its lowest bit flipped
FlipLast(w) == IF w % 2 = 0 THEN w + 1 ELSE w - 1

\* C8: for each of the five bit sizes b, the mnemonic of a wallet has
\* b/32*3 words, and decoding it validates the checksum (the top b/32 bits
\* of the SHA-256 of the entropy) and returns the wallet's entropy; with a
\* checksum bit changed, decoding fails.
C8_MnemonicRoundTrip ==
    \A k \in DOMAIN made :
        \E m \in {made[k].Mnemonic} :
            /\ bits \in ValidBitSizes
            /\ 8 * Len(made[k].Entropy) = bits
            /\ Len(m) = (bits \div 32) * 3
            /\ \A n \in DOMAIN m : m[n] \in 0 .. 2047
            /\ EntropyFromMnemonic(m) = [entropy |-> made[k].Entropy, err |-> NoErr]
            /\ EntropyFromMnemonic([m EXCEPT ![Len(m)] = FlipLast(@)])
                   = [entropy |-> <<>>, err |-> ErrChecksumIncorrect]

\* two wallets of 160 bits with different entropies have been generated
C8_Witness ==
    /\ bits = 160
    /\ Len(made) = 2
    /\ made[1].Entropy # made[2].Entropy
    /\ Len(made[2].Mnemonic) = 15

\* the mainnet kind each format decodes to
KindOf == [P2PKH |-> "AddressPubKeyHash", P2WPKHInP2SH |-> "AddressScriptHash",
           P2WPKH |-> "AddressWitnessPubKeyHash", Taproot |-> "AddressTaproot"]

\* the addresses of a Generated value, by format
AddressesOf(g) == [P2PKH |-> g.P2pkhAddress, P2WPKHInP2SH |-> g.P2wpkhP2shAddress,
                   P2WPKH |-> g.P2wpkhAddress, Taproot |-> g.TaprootAddress]

\* C9: for every wallet the P2PKH and P2WPKH-in-P2SH addresses are
\* Base58Check with different version bytes (mainnet pubkey hash, mainnet
\* script hash), the P2WPKH address is Bech32 with witness version 0 and a
\* program of 20 bytes, the P2TR address is Bech32m with witness version 1
\* and a program of 32 bytes; the text of the address of a format decodes
\* as the kind of that format and of no other.
C9_FormatExclusivity ==
    /\ \A f, g \in Formats : f # g => KindOf[f] # KindOf[g]
    /\ MainNetParams.PubKeyHashAddrID # MainNetParams.ScriptHashAddrID
    /\ \A k \in DOMAIN wallets :
          \E a \in {AddressesOf(wallets[k])} :
              /\ a.P2PKH.encoding = "Base58Check"
              /\ a.P2PKH.version = MainNetParams.PubKeyHashAddrID
              /\ a.P2WPKHInP2SH.encoding = "Base58Check"
              /\ a.P2WPKHInP2SH.version = MainNetParams.ScriptHashAddrID
              /\ a.P2PKH.version # a.P2WPKHInP2SH.version
              /\ a.P2WPKH.encoding = "Bech32"
              /\ a.P2WPKH.version = 0
              /\ a.P2WPKH.data.len = 20
              /\ a.Taproot.encoding = "Bech32m"
              /\ a.Taproot.version = 1
              /\ a.Taproot.data.len = 32
              /\ \A f, g \in Formats :
                    (DecodeAddress(EncodeAddress(a[f]), MainNetParams) = KindOf[g])
                        <=> (f = g)

\* the addresses of two wallets have been collected
C9_Witness ==
    /\ Len(wallets) = 2
    /\ wallets[1] # wallets[2]

\* what the output shows of the k-th wallet NewWallet returned: its four
\* addresses as text, and its mnemonic
Shown(k) ==
    <<EncodeAddress(DeriveP2PKHAddress(made[k]).address),
      EncodeAddress(DeriveP2WPKHInP2SHAddress(made[k]).address),
      EncodeAddress(DeriveP2WPKHAddress(made[k]).address),
      EncodeAddress(DeriveTaprootAddress(made[k]).address),
      made[k].Mnemonic>>

\* the lines of print mode for n wallets
Printed(n) ==
    LET lines[k \in 0 .. n] ==
            IF k = 0 THEN <<>>
            ELSE lines[k - 1]
                 \o << <<"Mnemonic:", Shown(k)[5]>>,
                       <<"BIP-44 P2PKH Address:", Shown(k)[1]>>,
                       <<"BIP-49 P2WPKH-in-P2SH Address:", Shown(k)[2]>>,
                       <<"BIP-84 P2WPKH Address:", Shown(k)[3]>>,
                       <<"BIP-86 P2TR Address:", Shown(k)[4]>> >>
                 \o (IF k # n THEN << <<"">> >> ELSE <<>>)
    IN  lines[n]

\* output starts only after all count wallets have been generated
OutputAfterGeneration ==
    (pc \in {"header", "rows", "print", "done"} \/ stdout # <<>> \/ file # NoFile
        \/ writer # <<>>)
    => /\ Len(made) = Max(count, 0)
       /\ Len(wallets) = Max(count, 0)
       /\ attempts = Max(count, 0)

\* the file holds the header and then one record for each of the count
\* wallets, in generation order, record k with index k
FileHoldsAll ==
    /\ file.created
    /\ Len(file.rows) = Max(count, 0) + 1
    /\ file.rows[1] = header
    /\ \A k \in 1 .. Max(count, 0) : file.rows[k + 1] = <<Itoa(k)>> \o Shown(k)

\* the program ended with "Saved to:", having reported no error
SavedReported == stdout[Len(stdout)] = <<"Saved to:", out>>

\* C10: when every wallet of a batch succeeds, the output has exactly count
\* records in generation order, record k with the four addresses and the
\* mnemonic of the k-th wallet generated (and, in the CSV, the index k);
\* output starts only after all count wallets have been generated; a count
\* of 0 or less gives no record (in CSV mode, the header alone).  In CSV
\* mode this is stated for the runs that report the file as saved.
C10_ExactlyCountRecords ==
    /\ OutputAfterGeneration
    /\ pc = "done" =>
          IF Len(out) > 0 THEN SavedReported => FileHoldsAll
          ELSE stdout = Printed(Max(count, 0))

\* What holds of the output: print mode shows every record; a CSV run that
\* reports the file as saved has handed the header and every record to the
\* writer, but the file holds them all only if the deferred Flush, whose
\* error is dropped, wrote them: otherwise it holds a prefix.
OutputUnlessIOFails ==
    /\ OutputAfterGeneration
    /\ pc = "done" =>
          IF Len(out) = 0 THEN stdout = Printed(Max(count, 0))
          ELSE /\ flushed => FileHoldsAll
               /\ SavedReported =>
                     /\ Len(writer) = Max(count, 0) + 1
                     /\ file.rows = SubSeq(writer, 1, Len(file.rows))

\* "Saved to:" was printed for a batch of two wallets, and the file is empty
SavedButEmpty ==
    /\ pc = "done"
    /\ Len(made) = 2
    /\ stdout = << <<"Saved to:", out>> >>
    /\ file.rows = <<>>

====
